---- MODULE Spec2Model ----
(***************************************************************************)
(* Model of 2_pytorch_training_job.ipynb: the embedded training script     *)
(* script/mnist.py (argument parsing, train_model, log_performance,        *)
(* save_model) and the notebook cells that upload the data, submit the     *)
(* training job and store variables.                                       *)
(*                                                                         *)
(* Numbers that are floating point in the script are kept exact: a real    *)
(* is a record [nan, num, den] (a fraction, or NaN).  The numeric forward  *)
(* pass of the network is an uninterpreted function of the parameters and  *)
(* the example (ExampleLoss, ExampleCorrect); the parameters are identified   *)
(* by the number of optimizer steps that produced them and a NaN flag.     *)
(***************************************************************************)
EXTENDS Integers, Sequences, FiniteSets, TLC

(*************************** bounds of the model ***************************)
\* largest value of --epochs that is enumerated (the default, 10, is kept besides)
MaxEpochs == 2
\* largest index of the uninterpreted network functions (0..MaxNet) that are enumerated
MaxNet == 0

(**************************** program constants ****************************)
TrainBatchSize == 64
TestBatchSize == 1000
SEED == 42
log_interval == 100
DefaultEpochs == 10
DefaultHiddenChannels == 10
kernel_size == 5

EnvVars == <<"SM_MODEL_DIR", "SM_NUM_GPUS", "SM_CHANNEL_TRAINING">>
EnvSet == {EnvVars[i] : i \in 1..Len(EnvVars)}
PathArgs == {"model_dir", "num_gpus", "data_dir"}

\* value the container gives an environment variable / the command line gives an argument
EnvValue(v) == "env:" \o v
CliValue(a) == "cli:" \o a

(********************************* reals ***********************************)
Rat(n, d) == [nan |-> FALSE, num |-> n, den |-> d]
NaN == [nan |-> TRUE, num |-> 0, den |-> 1]
IsNaN(r) == r.nan
\* r + s for two values with the same denominator 1 (sums of "sum" reductions)
Add(r, s) == IF r.nan \/ s.nan THEN NaN ELSE Rat(r.num + s.num, 1)
\* r / n, n > 0
DivBy(r, n) == IF r.nan THEN NaN ELSE Rat(r.num, r.den * n)
\* n / d rounded to the nearest integer, a tie to the even one (n >= 0, d > 0)
RoundHalfEven(n, d) ==
    LET q == n \div d
        r == n % d
    IN IF 2 * r < d THEN q
       ELSE IF 2 * r > d THEN q + 1
       ELSE IF q % 2 = 0 THEN q ELSE q + 1
\* "{:.<digits>f}".format(r): the decimal with that many digits after the point
Fixed(r, digits) ==
    IF r.nan THEN NaN
    ELSE Rat(RoundHalfEven(r.num * 10^digits, r.den), 10^digits)

(***************************** the network *********************************)
\* Net.__init__: the parameter tensors of the four layers and their shapes
\* (Dropout2d conv2_drop has no parameters).
\* a faulty variant of Net: one more hidden channel than asked for
NetOtherWidth(hidden_channels, ks) ==
    ("conv1.weight" :> <<hidden_channels + 1, 1, ks, ks>>) @@
    ("conv1.bias" :> <<hidden_channels + 1>>) @@
    ("conv2.weight" :> <<20, hidden_channels + 1, ks, ks>>) @@
    ("conv2.bias" :> <<20>>) @@
    ("fc1.weight" :> <<50, 320>>) @@
    ("fc1.bias" :> <<50>>) @@
    ("fc2.weight" :> <<10, 50>>) @@
    ("fc2.bias" :> <<10>>)

Net(hidden_channels, ks) ==
    ("conv1.weight" :> <<hidden_channels, 1, ks, ks>>) @@
    ("conv1.bias" :> <<hidden_channels>>) @@
    ("conv2.weight" :> <<20, hidden_channels, ks, ks>>) @@
    ("conv2.bias" :> <<20>>) @@
    ("fc1.weight" :> <<50, 320>>) @@
    ("fc1.bias" :> <<50>>) @@
    ("fc2.weight" :> <<10, 50>>) @@
    ("fc2.bias" :> <<10>>)

\* torch.nn.DataParallel(model): the wrapped network is the submodule "module",
\* so every entry of the state_dict is keyed "module.<name>".
\* a faulty variant of DataParallel: the keys of the bare network (model.module)
DataParallelUnprefixed(sd) == sd

DataParallel(sd) ==
    [k \in {"module." \o n : n \in DOMAIN sd} |->
        sd[CHOOSE n \in DOMAIN sd : "module." \o n = k]]

RECURSIVE Product(_)
Product(shape) == IF shape = <<>> THEN 1 ELSE Head(shape) * Product(Tail(shape))

RECURSIVE SumNumel(_, _)
SumNumel(sd, keys) ==
    IF keys = {} THEN 0
    ELSE LET k == CHOOSE x \in keys : TRUE
         IN Product(sd[k]) + SumNumel(sd, keys \ {k})

\* total number of scalar parameters of a state_dict
ParameterCount(sd) == SumNumel(sd, DOMAIN sd)

\* the parameters: which optimizer steps produced them, and whether they hold NaN
Theta(steps, nan) == [steps |-> steps, nan |-> nan]

\* Uninterpreted stand-ins for the numeric forward pass in evaluation mode:
\* the negative log-likelihood of example i of a partition under the parameters
\* (a whole number of loss units) and whether the arg-max class is the target.
LossUnits == 1..3
ExampleLoss(net, theta, part, i) ==
    1 + ((net + theta.steps + i + (IF part = "Train" THEN 0 ELSE 1)) % 3)
ExampleCorrect(net, theta, part, i) ==
    IF ((net + 1) * theta.steps + i + (IF part = "Train" THEN 0 ELSE 1)) % 3 = 0
    THEN 0 ELSE 1

(***************************** data loaders ********************************)
\* DataLoader(dataset, batch_size, shuffle=True): drop_last is False
DataLoader(dataset, batch_size) == [n |-> dataset, batch_size |-> batch_size]

\* len(loader): ceil(n / batch_size)
LoaderLen(loader) == (loader.n + loader.batch_size - 1) \div loader.batch_size

\* RandomSampler: the permutation drawn from the generator state; stand-in for
\* randperm: the rotation of 1..n by an offset determined by the generator.
Shuffle(rng, n) == (rng.seed + rng.draws) % n
SamplerAt(n, off, p) == ((p - 1 + off) % n) + 1
Draw(rng) == [rng EXCEPT !.draws = @ + 1]

\* iter(loader): a fresh permutation, nothing consumed
NewIter(rng, loader) == [off |-> Shuffle(rng, loader.n), pos |-> 0]

\* the positions of the sampler the next batch takes: [lo, hi]
BatchHi(loader, it) ==
    IF it.pos + loader.batch_size < loader.n THEN it.pos + loader.batch_size
    ELSE loader.n

\* the iterator is exhausted (StopIteration)
\* a faulty variant of Exhausted: a last batch smaller than batch_size is dropped
ExhaustedDropLast(loader, it) == it.pos + loader.batch_size > loader.n

Exhausted(loader, it) == it.pos >= loader.n

\* sum over sampler positions lo..hi of the loss / of the correct predictions
RECURSIVE RangeLoss(_, _, _, _, _, _, _)
RangeLoss(net, theta, part, n, off, lo, hi) ==
    IF lo > hi THEN 0
    ELSE IF lo = hi THEN ExampleLoss(net, theta, part, SamplerAt(n, off, lo))
    ELSE LET mid == (lo + hi) \div 2
         IN RangeLoss(net, theta, part, n, off, lo, mid)
            + RangeLoss(net, theta, part, n, off, mid + 1, hi)

RECURSIVE RangeCorrect(_, _, _, _, _, _, _)
RangeCorrect(net, theta, part, n, off, lo, hi) ==
    IF lo > hi THEN 0
    ELSE IF lo = hi THEN ExampleCorrect(net, theta, part, SamplerAt(n, off, lo))
    ELSE LET mid == (lo + hi) \div 2
         IN RangeCorrect(net, theta, part, n, off, lo, mid)
            + RangeCorrect(net, theta, part, n, off, mid + 1, hi)

(******************************** state ************************************)
VARIABLES
    \* inputs of one run of the script
    environ,        \* os.environ: the set of environment variables that are set
    argv,           \* the command line: each argument absent (<<>>) or given (<<v>>)
    cuda,           \* torch.cuda.is_available()
    mnist,          \* number of examples of the two MNIST partitions in the data directory
    net,            \* which uninterpreted network function stands for the forward pass
    \* the script
    pc,             \* position in the script
    error,          \* the uncaught exception that ended the process, or "none"
    args,           \* parser.parse_args()
    train_set, test_set,
    device, rng,
    train_loader, test_loader,
    model, optimizer,
    epoch, batch_idx,
    train_it,       \* iterator of enumerate(train_loader, 1)
    batch,          \* (data, target) of the current batch: sampler positions lo..hi
    grad,           \* the .grad of the parameters: the backward passes accumulated in it
    loss,           \* loss of the current training batch
    ev,             \* frame of log_performance
    log,            \* records emitted by logger.info
    files,          \* the file system below the model directory
    saves,          \* number of torch.save calls completed
    \* the notebook
    nb,             \* the notebook cell that runs next
    default_bucket, \* sm_session.default_bucket()
    data_s3_uri, estimator,
    job,            \* the training job the platform tracks
    s3,             \* object storage: the prefixes that hold objects, with what they hold
    stored          \* variables persisted by %store

inputs == <<environ, argv, cuda, mnist, net>>
datavars == <<train_set, test_set, device, train_loader, test_loader>>
trainvars == <<epoch, batch_idx, train_it, batch, grad, loss>>
nbvars == <<nb, default_bucket, data_s3_uri, estimator, job, s3, stored>>
vars == <<inputs, pc, error, args, datavars, rng, model, optimizer, trainvars, ev,
          log, files, saves, nbvars>>

None == <<>>
Opt(a, default) == IF a = <<>> THEN default ELSE a[1]

(***************************** start of the script *************************)
\* the optimizer names enumerated for --optimizer
OptimizerNames == {"sgd", "adam", "SGD", "rmsprop"}
HiddenChannelValues == {5}
\* sizes of the (train, test) partitions enumerated: one example; exactly one full
\* batch of each loader; full batches followed by a smaller last batch
MnistSizes == {[train |-> 1, test |-> 3],
               [train |-> 64, test |-> 1000],
               [train |-> 130, test |-> 1001]}
\* train partitions of at least log_interval batches: 100 batches, the last of
\* one example; 201 batches
LongEpochSizes == {[train |-> 6337, test |-> 3],
                   [train |-> 12801, test |-> 3]}

Argvs ==
    [epochs : {<<>>} \cup {<<n>> : n \in (0 - 1)..MaxEpochs},
     optimizer : {<<>>} \cup {<<o>> : o \in OptimizerNames},
     hidden_channels : {<<>>} \cup {<<h>> : h \in HiddenChannelValues},
     paths : SUBSET PathArgs]

ScriptIdle ==
    /\ error = "none" /\ args = None
    /\ train_set = None /\ test_set = None /\ device = None /\ rng = None
    /\ train_loader = None /\ test_loader = None
    /\ model = None /\ optimizer = None
    /\ epoch = 0 /\ batch_idx = 0 /\ train_it = None /\ batch = None
    /\ grad = None /\ loss = None /\ ev = None
    /\ log = <<>> /\ files = <<>> /\ saves = 0

NotebookIdle ==
    /\ default_bucket = None /\ data_s3_uri = None /\ estimator = None
    /\ job = None /\ s3 = <<>> /\ stored = {}

\* Four families of runs are enumerated:
\*  - every combination of environment variables and path arguments, with one
\*    short training;
\*  - every combination of optimizer selector, hidden width, device and data
\*    size, for one epoch in the complete container environment;
\*  - every epoch count, device and data size with the default width, for the
\*    two supported optimizers;
\*  - one epoch of at least log_interval batches with the default arguments.
\* The script is started by hand or by the platform.
Init ==
    /\ environ \in SUBSET EnvSet
    /\ argv \in Argvs
    /\ cuda \in BOOLEAN
    /\ mnist \in MnistSizes \cup LongEpochSizes
    /\ net \in 0..MaxNet
    /\ \/ /\ argv.epochs = <<1>> /\ argv.optimizer = <<>>
          /\ argv.hidden_channels = <<>>
          /\ mnist.train = 1 /\ net = 0
       \/ /\ environ = EnvSet /\ argv.paths = {}
          /\ argv.epochs = <<1>>
          /\ mnist \in MnistSizes
       \/ /\ environ = EnvSet /\ argv.paths = {}
          /\ argv.hidden_channels = <<>>
          /\ argv.optimizer \in {<<>>, <<"adam">>}
          /\ mnist \in MnistSizes
       \/ /\ environ = EnvSet /\ argv.paths = {}
          /\ argv.epochs = <<1>> /\ argv.optimizer = <<>>
          /\ argv.hidden_channels = <<>>
          /\ mnist \in LongEpochSizes /\ net = 0 /\ ~cuda
    /\ pc = "parse"
    /\ ScriptIdle
    /\ nb = "none" /\ NotebookIdle

\* an exception nobody catches: the interpreter prints it and exits
\* a faulty variant of OnError: the failed step is caught and tried again
OnErrorRetry(at) == at

OnError(at) == "fatal"

Raise(e) ==
    /\ error' = e
    /\ pc' = OnError(pc)

\* the environment variables read while the parser is built (os.environ[...] is
\* evaluated as the default= of add_argument, whatever the command line holds)
EnvOf(a) == CASE a = "model_dir" -> "SM_MODEL_DIR"
              [] a = "num_gpus" -> "SM_NUM_GPUS"
              [] a = "data_dir" -> "SM_CHANNEL_TRAINING"

\* a faulty variant of EnvLookups: a variable is read only when its argument is absent
EnvLookupsUnlessGiven(cmdline) ==
    SelectSeq(EnvVars, LAMBDA v : \A a \in cmdline.paths : EnvOf(a) # v)

EnvLookups(cmdline) == EnvVars

PathArg(a) == IF a \in argv.paths THEN CliValue(a) ELSE EnvValue(EnvOf(a))

\* lines 270-294: build the parser, parse the command line
ParseArgs ==
    /\ pc = "parse"
    /\ LET lookups == EnvLookups(argv)
           missing == {i \in 1..Len(lookups) : lookups[i] \notin environ}
       IN IF missing # {}
          THEN /\ Raise("KeyError: " \o
                        lookups[CHOOSE i \in missing : \A j \in missing : i <= j])
               /\ UNCHANGED args
          ELSE /\ args' = [epochs |-> Opt(argv.epochs, DefaultEpochs),
                           optimizer |-> Opt(argv.optimizer, "sgd"),
                           hidden_channels |-> Opt(argv.hidden_channels,
                                                   DefaultHiddenChannels),
                           model_dir |-> PathArg("model_dir"),
                           num_gpus |-> PathArg("num_gpus"),
                           data_dir |-> PathArg("data_dir")]
               /\ pc' = "load_train"
               /\ UNCHANGED error
    /\ UNCHANGED <<inputs, datavars, rng, model, optimizer, trainvars, ev, log,
                   files, saves, nbvars>>

\* lines 296-303: datasets.MNIST(args.data_dir, train=True, download=False)
LoadTrain ==
    /\ pc = "load_train"
    /\ \E found \in BOOLEAN :
         IF found
         THEN train_set' = mnist.train /\ pc' = "load_test" /\ UNCHANGED error
         ELSE Raise("RuntimeError: Dataset not found") /\ UNCHANGED train_set
    /\ UNCHANGED <<inputs, args, test_set, device, train_loader, test_loader, rng,
                   model, optimizer, trainvars, ev, log, files, saves, nbvars>>

\* lines 305-312: datasets.MNIST(args.data_dir, train=False, download=False)
LoadTest ==
    /\ pc = "load_test"
    /\ \E found \in BOOLEAN :
         IF found
         THEN test_set' = mnist.test /\ pc' = "seed" /\ UNCHANGED error
         ELSE Raise("RuntimeError: Dataset not found") /\ UNCHANGED test_set
    /\ UNCHANGED <<inputs, args, train_set, device, train_loader, test_loader, rng,
                   model, optimizer, trainvars, ev, log, files, saves, nbvars>>

\* lines 206-209: the device, torch.manual_seed(42)
ManualSeed ==
    /\ pc = "seed"
    /\ device' = IF cuda THEN "cuda" ELSE "cpu"
    /\ rng' = [seed |-> SEED, draws |-> 0]
    /\ pc' = "loaders"
    /\ UNCHANGED <<inputs, error, args, train_set, test_set, train_loader,
                   test_loader, model, optimizer, trainvars, ev, log, files, saves,
                   nbvars>>

ProcessesRecord(part, loader) ==
    [kind |-> "processes", part |-> part, sampler |-> loader.n, dataset |-> loader.n,
     pct |-> Rat(100 * loader.n, loader.n)]

\* lines 211-227: the two loaders and the two "Processes" records
MakeLoaders ==
    /\ pc = "loaders"
    /\ train_loader' = DataLoader(train_set, TrainBatchSize)
    /\ test_loader' = DataLoader(test_set, TestBatchSize)
    /\ log' = log \o <<ProcessesRecord("train", train_loader'),
                      ProcessesRecord("test", test_loader')>>
    /\ pc' = "build"
    /\ UNCHANGED <<inputs, error, args, train_set, test_set, device, rng, model,
                   optimizer, trainvars, ev, files, saves, nbvars>>

\* lines 228-229: Net(hidden_channels, kernel_size=5, drop_out=0.5), DataParallel
\* a faulty variant of BuildNet: the architecture depends on the selector
BuildNetForSelector(selector, hidden_channels) ==
    IF selector = "sgd" THEN Net(hidden_channels, kernel_size)
    ELSE NetOtherWidth(hidden_channels, kernel_size)

BuildNet(selector, hidden_channels) == Net(hidden_channels, kernel_size)

BuildModel ==
    /\ pc = "build"
    /\ model' = [state_dict |-> DataParallel(BuildNet(args.optimizer,
                                                      args.hidden_channels)),
                 training |-> TRUE,
                 theta |-> Theta(0, FALSE),
                 device |-> device]
    /\ rng' = Draw(rng)
    /\ pc' = "optimizer"
    /\ UNCHANGED <<inputs, error, args, datavars, optimizer, trainvars, ev, log,
                   files, saves, nbvars>>

\* lines 230-236: the optimizer the selector names
momentum == Rat(1, 2)
lr == Rat(1, 100)
SGD == [type |-> "SGD", lr |-> lr, momentum |-> momentum]
Adam == [type |-> "Adam", lr |-> lr]

\* a faulty variant of SelectOptimizer: the selector is compared in any letter case
SelectOptimizerAnyCase(selector) == IF selector \in {"sgd", "SGD"} THEN SGD ELSE Adam

SelectOptimizer(selector) == IF selector = "sgd" THEN SGD ELSE Adam

MakeOptimizer ==
    /\ pc = "optimizer"
    /\ optimizer' = SelectOptimizer(args.optimizer)
    /\ pc' = "epoch"
    /\ UNCHANGED <<inputs, error, args, datavars, rng, model, trainvars, ev, log,
                   files, saves, nbvars>>

(****************************** train_model ********************************)
\* line 238: for epoch in range(1, epochs + 1); epoch holds the last epoch started
TestLossesOf(records) ==
    SelectSeq(records, LAMBDA r : r.kind = "eval" /\ r.metric_type = "Test")

\* a faulty variant of MoreEpochs: stop when the test loss did not improve
MoreEpochsEarlyStopping(e, epochs) ==
    /\ e < epochs
    /\ LET t == TestLossesOf(log)
       IN IF Len(t) < 2 THEN TRUE
          ELSE IF t[Len(t)].loss.nan THEN TRUE
          ELSE IF t[Len(t) - 1].loss.nan THEN TRUE
          ELSE t[Len(t)].loss.num < t[Len(t) - 1].loss.num

\* a faulty variant of MoreEpochs: the loop body runs once before the test
MoreEpochsAtLeastOnce(e, epochs) == IF e = 0 THEN TRUE ELSE e < epochs

MoreEpochs(e, epochs) == e < epochs

\* line 240: model.train()
\* a faulty variant of TrainMode: the mode is left as the evaluation set it
TrainModeOmitted(m) == m

TrainMode(m) == [m EXCEPT !.training = TRUE]

\* lines 238-241: the next epoch starts: model.train(), iter(train_loader)
EpochBegin ==
    /\ pc = "epoch"
    /\ MoreEpochs(epoch, args.epochs)
    /\ epoch' = epoch + 1
    /\ model' = TrainMode(model)
    /\ train_it' = NewIter(rng, train_loader)
    /\ rng' = Draw(rng)
    /\ batch_idx' = 0
    /\ pc' = "next_batch"
    /\ UNCHANGED <<inputs, error, args, datavars, optimizer, batch, grad, loss, ev,
                   log, files, saves, nbvars>>

\* lines 241-242: the loader yields the next batch, moved to the device
NextBatch ==
    /\ pc = "next_batch"
    /\ ~Exhausted(train_loader, train_it)
    /\ \E ok \in BOOLEAN :
         IF ok
         THEN /\ batch' = [lo |-> train_it.pos + 1,
                           hi |-> BatchHi(train_loader, train_it)]
              /\ train_it' = [train_it EXCEPT !.pos = BatchHi(train_loader, train_it)]
              /\ batch_idx' = batch_idx + 1
              /\ pc' = "zero_grad"
              /\ UNCHANGED error
         ELSE /\ Raise("IOError")
              /\ UNCHANGED <<batch, train_it, batch_idx>>
    /\ UNCHANGED <<inputs, args, datavars, rng, model, optimizer, epoch, grad, loss,
                   ev, log, files, saves, nbvars>>

\* line 243: optimizer.zero_grad()
ZeroGrad ==
    /\ pc = "zero_grad"
    /\ grad' = [from |-> {}, nan |-> FALSE]
    /\ pc' = "forward"
    /\ UNCHANGED <<inputs, error, args, datavars, rng, model, optimizer, epoch,
                   batch_idx, train_it, batch, loss, ev, log, files, saves, nbvars>>

\* line 244: output = model(data), in training mode (dropout draws from the generator)
Forward ==
    /\ pc = "forward"
    /\ \E ok \in BOOLEAN :
         IF ok
         THEN /\ rng' = IF model.training THEN Draw(rng) ELSE rng
              /\ pc' = "loss"
              /\ UNCHANGED error
         ELSE /\ Raise("RuntimeError: out of memory")
              /\ UNCHANGED rng
    /\ UNCHANGED <<inputs, args, datavars, model, optimizer, trainvars, ev, log,
                   files, saves, nbvars>>

\* the mean negative log-likelihood of the batch (reduction="mean")
BatchLoss(theta, b) ==
    IF theta.nan THEN NaN
    ELSE Rat(RangeLoss(net, theta, "Train", train_loader.n, train_it.off, b.lo, b.hi),
             b.hi - b.lo + 1)

\* what follows the computation of the loss: nothing inspects its value
\* a faulty variant of AfterLoss: a NaN loss ends the run
AfterLossChecked(l) == IF IsNaN(l) THEN "fatal" ELSE "backward"

AfterLoss(l) == "backward"

\* line 245: loss = nll_loss(output, target); an overflow or an invalid operation
\* in the arithmetic gives NaN and raises nothing
ComputeLoss ==
    /\ pc = "loss"
    /\ \E invalid \in BOOLEAN :
         /\ loss' = IF invalid THEN NaN ELSE BatchLoss(model.theta, batch)
         /\ pc' = AfterLoss(loss')
    /\ UNCHANGED <<inputs, error, args, datavars, rng, model, optimizer, epoch,
                   batch_idx, train_it, batch, grad, ev, log, files, saves, nbvars>>

\* line 246: loss.backward() adds the gradient of this batch's loss to .grad
Backward ==
    /\ pc = "backward"
    /\ \E ok \in BOOLEAN :
         IF ok
         THEN /\ grad' = [from |-> grad.from \cup {<<epoch, batch_idx>>},
                          nan |-> grad.nan \/ IsNaN(loss)]
              /\ pc' = "step"
              /\ UNCHANGED error
         ELSE /\ Raise("RuntimeError: out of memory")
              /\ UNCHANGED grad
    /\ UNCHANGED <<inputs, args, datavars, rng, model, optimizer, epoch, batch_idx,
                   train_it, batch, loss, ev, log, files, saves, nbvars>>

\* line 247: optimizer.step(): new parameters from the old ones and .grad
OptimizerStep ==
    /\ pc = "step"
    /\ model' = [model EXCEPT !.theta = Theta(@.steps + 1, @.nan \/ grad.nan)]
    /\ pc' = "progress"
    /\ UNCHANGED <<inputs, error, args, datavars, rng, optimizer, trainvars, ev, log,
                   files, saves, nbvars>>

\* lines 249-257: "Train Epoch: {} [{}/{} ({:.0f}%)], Train Loss: {:.6f};"
ProgressRecord ==
    [kind |-> "progress", epoch |-> epoch,
     samples |-> batch_idx * (batch.hi - batch.lo + 1),
     total |-> train_loader.n,
     pct |-> Fixed(Rat(100 * batch_idx, LoaderLen(train_loader)), 0),
     loss |-> Fixed(loss, 6)]

\* line 248: if batch_idx % log_interval == 0, batch_idx counted from 1
\* a faulty variant of ShouldLog: the batches are counted from 0
ShouldLogFromZero(idx) == (idx - 1) % log_interval = 0

ShouldLog(idx) == idx % log_interval = 0

\* lines 248-257: every log_interval-th batch is logged
Progress ==
    /\ pc = "progress"
    /\ log' = IF ShouldLog(batch_idx) THEN Append(log, ProgressRecord) ELSE log
    /\ pc' = "next_batch"
    /\ UNCHANGED <<inputs, error, args, datavars, rng, model, optimizer, trainvars, ev,
                   files, saves, nbvars>>

\* lines 258-259: the two calls of log_performance that end an epoch
\* a faulty variant of AfterEval: the next epoch starts after the Train record
AfterTrainEvalSkipTest(metric_type) == "epoch"

AfterEval(metric_type) == IF metric_type = "Train" THEN "eval_test" ELSE "epoch"

(***************************** log_performance *****************************)
EvalLoader(metric_type) == IF metric_type = "Train" THEN train_loader ELSE test_loader

\* lines 169-173: model.eval(), loss = 0, correct = 0, iter(data_loader)
LogPerformanceBegin(at, metric_type) ==
    /\ pc = at
    /\ model' = [model EXCEPT !.training = FALSE]
    /\ ev' = [metric_type |-> metric_type,
              it |-> NewIter(rng, EvalLoader(metric_type)),
              loss |-> Rat(0, 1),
              correct |-> 0]
    /\ rng' = Draw(rng)
    /\ pc' = "eval_batch"
    /\ UNCHANGED <<inputs, error, args, datavars, optimizer, trainvars, log, files,
                   saves, nbvars>>

\* line 258: log_performance(model, train_loader, device, epoch, "Train"),
\* reached when the training loader is exhausted
EvalTrainBegin ==
    /\ pc = "next_batch"
    /\ Exhausted(train_loader, train_it)
    /\ LogPerformanceBegin("next_batch", "Train")

\* line 259: log_performance(model, test_loader, device, epoch, "Test")
EvalTestBegin == LogPerformanceBegin("eval_test", "Test")

\* nll_loss(output, target, reduction="sum") of the batch at positions lo..hi
EvalBatchLoss(theta, e, lo, hi) ==
    IF theta.nan THEN NaN
    ELSE Rat(RangeLoss(net, theta, e.metric_type, EvalLoader(e.metric_type).n,
                       e.it.off, lo, hi), 1)

EvalBatchCorrect(theta, e, lo, hi) ==
    RangeCorrect(net, theta, e.metric_type, EvalLoader(e.metric_type).n,
                 e.it.off, lo, hi)

\* lines 173-181: one batch of the evaluation loop
EvalBatch ==
    /\ pc = "eval_batch"
    /\ ~Exhausted(EvalLoader(ev.metric_type), ev.it)
    /\ \E ok \in BOOLEAN :
         IF ok
         THEN LET lo == ev.it.pos + 1
                  hi == BatchHi(EvalLoader(ev.metric_type), ev.it)
              IN /\ ev' = [ev EXCEPT
                             !.it.pos = hi,
                             !.loss = Add(@, EvalBatchLoss(model.theta, ev, lo, hi)),
                             !.correct = @ + EvalBatchCorrect(model.theta, ev, lo, hi)]
                 /\ UNCHANGED <<pc, error>>
         ELSE Raise("RuntimeError: out of memory") /\ UNCHANGED ev
    /\ UNCHANGED <<inputs, args, datavars, rng, model, optimizer, trainvars, log,
                   files, saves, nbvars>>

\* lines 182-183: the two reported numbers
\* a faulty variant of ReportedLoss: divided by len(data_loader)
ReportedLossPerBatch(e) == DivBy(e.loss, LoaderLen(EvalLoader(e.metric_type)))

ReportedLoss(e) == DivBy(e.loss, EvalLoader(e.metric_type).n)

ReportedAccuracy(e) == Rat(100 * e.correct, EvalLoader(e.metric_type).n)

\* lines 182-189: the averages and the record; the call returns
EvalReport ==
    /\ pc = "eval_batch"
    /\ Exhausted(EvalLoader(ev.metric_type), ev.it)
    /\ log' = Append(log, [kind |-> "eval", epoch |-> epoch,
                           metric_type |-> ev.metric_type,
                           loss |-> ReportedLoss(ev),
                           accuracy |-> ReportedAccuracy(ev)])
    /\ pc' = AfterEval(ev.metric_type)
    /\ UNCHANGED <<inputs, error, args, datavars, rng, model, optimizer, trainvars, ev,
                   files, saves, nbvars>>

(************************* return and save_model ***************************)
\* line 260: return model, when range(1, epochs + 1) is exhausted
TrainReturn ==
    /\ pc = "epoch"
    /\ ~MoreEpochs(epoch, args.epochs)
    /\ pc' = "save"
    /\ UNCHANGED <<inputs, error, args, datavars, rng, model, optimizer, trainvars, ev,
                   log, files, saves, nbvars>>

ModelPath(model_dir) == model_dir \o "/model.pth"

\* lines 263-267 and 321: save_model(model, args.model_dir)
SaveModel ==
    /\ pc = "save"
    /\ \E ok \in BOOLEAN :
         IF ok
         THEN /\ log' = Append(log, [kind |-> "saving"])
              /\ model' = [model EXCEPT !.device = "cpu"]
              /\ files' = (ModelPath(args.model_dir) :>
                              [state_dict |-> model.state_dict, theta |-> model.theta])
                          @@ files
              /\ saves' = saves + 1
              /\ pc' = "done"
              /\ UNCHANGED error
         ELSE /\ Raise("IOError")
              /\ UNCHANGED <<log, model, files, saves>>
    /\ UNCHANGED <<inputs, args, datavars, rng, optimizer, trainvars, ev, nbvars>>

ScriptNext ==
    \/ ParseArgs \/ LoadTrain \/ LoadTest
    \/ ManualSeed \/ MakeLoaders \/ BuildModel \/ MakeOptimizer
    \/ EpochBegin \/ NextBatch \/ ZeroGrad \/ Forward \/ ComputeLoss \/ Backward
    \/ OptimizerStep \/ Progress
    \/ EvalTrainBegin \/ EvalTestBegin \/ EvalBatch \/ EvalReport
    \/ TrainReturn \/ SaveModel

Next == ScriptNext

Spec == Init /\ [][Next]_vars

(******************************* the notebook ******************************)
Buckets == {"sagemaker-eu-west-1-1", "sagemaker-us-east-1-2"}
base_prefix == "mnist_training_job_examples"
data_prefix == "data"
JobName == "my-first-training-job"

\* the notebook opened on a fresh kernel; the local directory mnist_data holds
\* one of the data sizes
NotebookInit ==
    /\ nb = "setup" /\ NotebookIdle
    /\ pc = "not started" /\ ScriptIdle
    /\ environ = {} /\ argv = None
    /\ cuda \in BOOLEAN
    /\ mnist \in MnistSizes
    /\ net \in 0..MaxNet

scriptvars == <<pc, error, args, datavars, rng, model, optimizer, trainvars, ev, log,
                files, saves>>

\* an exception in a cell: the kernel reports it and the run of the notebook stops
CellRaises == nb' = "stopped"

\* lines 46-53: the session and its default bucket
CellSetup ==
    /\ nb = "setup"
    /\ default_bucket' \in Buckets
    /\ nb' = "upload"
    /\ UNCHANGED <<inputs, scriptvars, data_s3_uri, estimator, job, s3, stored>>

\* sm_session.upload_data returns the prefix it wrote to
UploadedUri(bucket, key_prefix) == "s3://" \o bucket \o "/" \o key_prefix

\* lines 73-76: upload mnist_data, keep the location
CellUpload ==
    /\ nb = "upload"
    /\ \E ok \in BOOLEAN :
         IF ok
         THEN LET uri == UploadedUri(default_bucket, base_prefix \o "/" \o data_prefix)
              IN /\ s3' = (uri :> [kind |-> "mnist_data", sizes |-> mnist]) @@ s3
                 /\ data_s3_uri' = uri
                 /\ nb' = "ls"
         ELSE CellRaises /\ UNCHANGED <<s3, data_s3_uri>>
    /\ UNCHANGED <<inputs, scriptvars, default_bucket, estimator, job, stored>>

\* lines 96, 117, 129: list the upload, make ./script, write ./script/mnist.py
CellList ==
    /\ nb = "ls"
    /\ nb' = "mkdir"
    /\ UNCHANGED <<inputs, scriptvars, default_bucket, data_s3_uri, estimator, job, s3,
                   stored>>

CellMkdir ==
    /\ nb = "mkdir"
    /\ nb' = "writefile"
    /\ UNCHANGED <<inputs, scriptvars, default_bucket, data_s3_uri, estimator, job, s3,
                   stored>>

CellWriteScript ==
    /\ nb = "writefile"
    /\ nb' = "estimator"
    /\ UNCHANGED <<inputs, scriptvars, default_bucket, data_s3_uri, estimator, job, s3,
                   stored>>

\* lines 379-393: the job descriptor
CellEstimator ==
    /\ nb = "estimator"
    /\ estimator' = [source_dir |-> "script", entry_point |-> "mnist.py",
                     output_path |-> "s3://" \o default_bucket \o "/" \o base_prefix
                                     \o "/models",
                     framework_version |-> "1.12", py_version |-> "py38",
                     instance_type |-> "ml.c5.xlarge", instance_count |-> 1,
                     hyperparameters |-> [epochs |-> 10, hidden_channels |-> 5,
                                          optimizer |-> "adam"],
                     input_mode |-> "File", volume_size |-> 10]
    /\ nb' = "fit"
    /\ UNCHANGED <<inputs, scriptvars, default_bucket, data_s3_uri, job, s3, stored>>

Terminal == {"succeeded", "failed"}

\* line 413: the input channels given to fit
\* a faulty variant of FitInputs: the channel points at the base prefix
FitInputsBasePrefix == [training |-> "s3://" \o default_bucket \o "/" \o base_prefix]

FitInputs == [training |-> data_s3_uri]

\* line 413: estimator.fit({"training": data_s3_uri}, job_name=...) creates the job
FitSubmit ==
    /\ nb = "fit"
    /\ \E ok \in BOOLEAN :
         IF ok
         THEN /\ job' = [name |-> JobName, status |-> "submitted",
                         inputs |-> FitInputs,
                         descriptor |-> estimator]
              /\ nb' = "fit_wait"
         ELSE CellRaises /\ UNCHANGED job
    /\ UNCHANGED <<inputs, scriptvars, default_bucket, data_s3_uri, estimator, s3,
                   stored>>

\* line 413: fit is called without wait=False, so the call returns when the job
\* has ended
\* a faulty variant of FitReturns: fit(..., wait=False)
FitReturnsAtOnce(status) == TRUE

FitReturns(status) == status \in Terminal

\* fit returns (the job succeeded) or raises (the job failed)
FitReturn ==
    /\ nb = "fit_wait"
    /\ FitReturns(job.status)
    /\ IF job.status = "failed" THEN CellRaises ELSE nb' = "store_base_prefix"
    /\ UNCHANGED <<inputs, scriptvars, default_bucket, data_s3_uri, estimator, job, s3,
                   stored>>

\* lines 433-434: %store base_prefix, %store data_s3_uri
StoreBasePrefix ==
    /\ nb = "store_base_prefix"
    /\ stored' = stored \cup {"base_prefix"}
    /\ nb' = "store_data_s3_uri"
    /\ UNCHANGED <<inputs, scriptvars, default_bucket, data_s3_uri, estimator, job, s3>>

StoreDataS3Uri ==
    /\ nb = "store_data_s3_uri"
    /\ stored' = stored \cup {"data_s3_uri"}
    /\ nb' = "end"
    /\ UNCHANGED <<inputs, scriptvars, default_bucket, data_s3_uri, estimator, job, s3>>

(*************************** the training platform *************************)
\* the platform starts the container: the data of the "training" channel is
\* downloaded (input_mode File), the three SM_ variables are set, and mnist.py
\* is run with the hyperparameters as command-line arguments
JobStart ==
    /\ job # None
    /\ job.status = "submitted"
    /\ job' = [job EXCEPT !.status = "running"]
    /\ environ' = EnvSet
    /\ argv' = [epochs |-> <<job.descriptor.hyperparameters.epochs>>,
                optimizer |-> <<job.descriptor.hyperparameters.optimizer>>,
                hidden_channels |-> <<job.descriptor.hyperparameters.hidden_channels>>,
                paths |-> {}]
    /\ pc' = "parse"
    /\ UNCHANGED <<cuda, mnist, net, error, args, datavars, rng, model, optimizer,
                   trainvars, ev, log, files, saves, nb, default_bucket, data_s3_uri,
                   estimator, s3, stored>>

\* the script has exited: with status 0 the job succeeds and the model directory
\* is packaged to the output path, otherwise the job fails
JobEnd ==
    /\ job # None
    /\ job.status = "running"
    /\ pc \in {"done", "fatal"}
    /\ IF pc = "done"
       THEN /\ job' = [job EXCEPT !.status = "succeeded"]
            /\ s3' = ((job.descriptor.output_path \o "/" \o job.name
                       \o "/output/model.tar.gz") :> [kind |-> "model", files |-> files])
                     @@ s3
       ELSE /\ job' = [job EXCEPT !.status = "failed"]
            /\ UNCHANGED s3
    /\ UNCHANGED <<inputs, scriptvars, nb, default_bucket, data_s3_uri, estimator,
                   stored>>

NotebookNext ==
    \/ CellSetup \/ CellUpload \/ CellList \/ CellMkdir \/ CellWriteScript
    \/ CellEstimator \/ FitSubmit \/ FitReturn \/ StoreBasePrefix \/ StoreDataS3Uri
    \/ JobStart \/ JobEnd
    \/ (ScriptNext /\ UNCHANGED nbvars)

NotebookSpec == NotebookInit /\ [][NotebookNext]_vars

(********************************* claims **********************************)
EvalRecords == SelectSeq(log, LAMBDA r : r.kind = "eval")
BatchSteps == {"zero_grad", "forward", "loss", "backward", "step", "progress"}
\* the optimizer steps already taken for batches of the current epoch
StepsThisEpoch == IF pc \in {"zero_grad", "forward", "loss", "backward", "step"}
                  THEN batch_idx - 1 ELSE batch_idx
\* the records of epoch k are the Train record followed by the Test record
EpochLogged(k) ==
    /\ Len(EvalRecords) >= 2 * k
    /\ EvalRecords[2 * k - 1].epoch = k /\ EvalRecords[2 * k - 1].metric_type = "Train"
    /\ EvalRecords[2 * k].epoch = k /\ EvalRecords[2 * k].metric_type = "Test"

\* C1: while a training batch of epoch N+1 is processed, every earlier epoch has
\* processed all its training batches (one optimizer step each) and has emitted
\* its two evaluation records, Train first and Test second, and nothing of
\* epoch N+1 has been evaluated yet.
C1_EpochsSequential ==
    pc \in BatchSteps =>
        /\ model.theta.steps - StepsThisEpoch = (epoch - 1) * LoaderLen(train_loader)
        /\ Len(EvalRecords) = 2 * (epoch - 1)
        /\ \A k \in 1..(epoch - 1) : EpochLogged(k)

C1_Witness ==
    /\ pc = "zero_grad" /\ epoch = 2 /\ batch_idx = 1
    /\ LoaderLen(train_loader) = 3

\* C2: with an epoch count N >= 1 the artifact is written at most once, only by
\* the completed run, after 2N evaluation records (N epochs), at
\* <model_dir>/model.pth, and it holds the parameters after the last optimizer
\* step of epoch N (N * number of batches steps), which are the current ones.
C2_LastEpochSavedOnce ==
    (pc \notin {"parse", "not started"} /\ error = "none" /\ args.epochs >= 1) =>
        /\ saves = (IF pc = "done" THEN 1 ELSE 0)
        /\ (pc # "done") => files = <<>>
        /\ pc \in {"save", "done"} =>
              /\ epoch = args.epochs
              /\ Len(EvalRecords) = 2 * args.epochs
              /\ \A k \in 1..args.epochs : EpochLogged(k)
              /\ model.theta.steps = args.epochs * LoaderLen(train_loader)
        /\ pc = "done" =>
              /\ DOMAIN files = {args.model_dir \o "/model.pth"}
              /\ files[args.model_dir \o "/model.pth"].theta = model.theta

\* the run is complete, the test accuracy of the last epoch is below that of an
\* earlier epoch, and the parameters of the last epoch were saved
C2_Witness ==
    /\ pc = "done" /\ args.epochs >= 2
    /\ \E k \in 1..(args.epochs - 1) :
          EvalRecords[2 * args.epochs].accuracy.num < EvalRecords[2 * k].accuracy.num
    /\ files[args.model_dir \o "/model.pth"].theta.steps
          = args.epochs * LoaderLen(train_loader)

\* the sum of the losses of the examples 1..m, counted value by value
RECURSIVE WeightedCount(_, _, _, _)
WeightedCount(theta, part, m, values) ==
    IF values = {} THEN 0
    ELSE LET v == CHOOSE x \in values : TRUE
         IN v * Cardinality({i \in 1..m : ExampleLoss(net, theta, part, i) = v})
            + WeightedCount(theta, part, m, values \ {v})

SumOfLosses(theta, part, m) == WeightedCount(theta, part, m, LossUnits)

NumberCorrect(theta, part, m) ==
    Cardinality({i \in 1..m : ExampleCorrect(net, theta, part, i) = 1})

PartitionSize(part) == IF part = "Train" THEN mnist.train ELSE mnist.test

NothingStarted ==
    /\ args = None /\ train_set = None /\ test_set = None
    /\ train_loader = None /\ model = None
    /\ epoch = 0 /\ batch_idx = 0 /\ log = <<>> /\ files = <<>> /\ saves = 0

\* C4: when one of SM_MODEL_DIR, SM_NUM_GPUS, SM_CHANNEL_TRAINING is not set, the
\* only step of the script is the one that ends it with a KeyError, whatever
\* the command line holds, and no dataset is loaded, no batch is processed and
\* no file is written.
C4_MissingEnvIsFatal ==
    /\ [](environ # EnvSet =>
            /\ pc \in {"parse", "fatal"}
            /\ NothingStarted
            /\ (pc = "fatal") =>
                  \E v \in EnvSet \ environ : error = "KeyError: " \o v)
    /\ [][(environ # EnvSet /\ pc = "parse") => pc' = "fatal"]_vars

\* SM_NUM_GPUS is missing and all three path arguments are on the command line
C4_Witness ==
    /\ environ = EnvSet \ {"SM_NUM_GPUS"}
    /\ argv.paths = PathArgs
    /\ pc = "fatal" /\ error = "KeyError: SM_NUM_GPUS"

\* C5: an error raised by any step ends the run at once: the process is at its
\* fatal end, nothing was saved, and no step follows (no retry, no later batch
\* or epoch, no save_model).
C5_ErrorsPropagate ==
    /\ [](error # "none" => (pc = "fatal" /\ saves = 0 /\ files = <<>>))
    /\ [][(error # "none" \/ pc = "fatal") => UNCHANGED vars]_vars

\* an out-of-memory error in an evaluation batch of epoch 2
C5_Witness ==
    /\ pc = "fatal" /\ error = "RuntimeError: out of memory"
    /\ epoch = 2 /\ ~model.training /\ saves = 0

\* a training batch has had a NaN loss (every later loss is NaN as well)
NaNLossSeen == loss # None /\ IsNaN(loss)

\* C6 as stated: after a batch with a NaN loss no further batch is processed, no
\* further epoch starts and no model artifact is saved.
C6_NaNLossTerminates ==
    [][NaNLossSeen => (batch_idx' = batch_idx /\ epoch' = epoch /\ saves' = saves)]_vars

\* C6 amended: a NaN loss raises nothing: back-propagation follows it, the
\* optimizer step puts NaN into the parameters, training goes on, and a run
\* that no raised error ends saves the NaN parameters.
C6_NaNLossDoesNotStop ==
    /\ [][(pc = "loss" /\ IsNaN(loss')) => (pc' = "backward" /\ error' = "none")]_vars
    /\ [][(pc = "step" /\ IsNaN(loss)) => model'.theta.nan]_vars
    /\ []((NaNLossSeen /\ pc = "done") =>
             /\ saves = 1
             /\ files[args.model_dir \o "/model.pth"].theta.nan)

\* a NaN loss in epoch 1 of 2, and the run completed and saved
C6_Witness ==
    /\ pc = "done" /\ args.epochs = 2 /\ NaNLossSeen
    /\ EvalRecords[1].loss.nan
    /\ files[args.model_dir \o "/model.pth"].theta.nan

ParameterNames ==
    {"module.conv1.weight", "module.conv1.bias", "module.conv2.weight",
     "module.conv2.bias", "module.fc1.weight", "module.fc1.bias",
     "module.fc2.weight", "module.fc2.bias"}

\* the shapes of the architecture with h hidden channels
ArchitectureShapes(sd, h) ==
    /\ DOMAIN sd = ParameterNames
    /\ sd["module.conv1.weight"] = <<h, 1, 5, 5>> /\ sd["module.conv1.bias"] = <<h>>
    /\ sd["module.conv2.weight"] = <<20, h, 5, 5>> /\ sd["module.conv2.bias"] = <<20>>
    /\ sd["module.fc1.weight"] = <<50, 320>> /\ sd["module.fc1.bias"] = <<50>>
    /\ sd["module.fc2.weight"] = <<10, 50>> /\ sd["module.fc2.bias"] = <<10>>

\* C8: the network that is built depends on the hidden width alone (the same
\* named parameters, shapes and 526*h + 16580 scalars for every selector), and
\* the selector decides the optimizer: "sgd" gives SGD with learning rate 0.01
\* and momentum 0.5, "adam" gives Adam with learning rate 0.01.
C8_SelectorChangesOptimizerOnly ==
    /\ model # None =>
          /\ ArchitectureShapes(model.state_dict, args.hidden_channels)
          /\ ParameterCount(model.state_dict) = 526 * args.hidden_channels + 16580
    /\ optimizer # None =>
          /\ args.optimizer = "sgd" =>
                optimizer = [type |-> "SGD", lr |-> Rat(1, 100), momentum |-> Rat(1, 2)]
          /\ args.optimizer = "adam" =>
                optimizer = [type |-> "Adam", lr |-> Rat(1, 100)]

\* Adam was built for a network of width 5
C8_Witness ==
    /\ pc = "epoch" /\ args.optimizer = "adam" /\ args.hidden_channels = 5
    /\ optimizer.type = "Adam"

EndToEndRun ==
    /\ pc = "done" /\ args.epochs = 1 /\ args.hidden_channels = 5
    /\ args.optimizer = "adam"

\* C9 as stated: the saved file holds exactly 6 named tensors.
C9_SixGroups ==
    EndToEndRun =>
        Cardinality(DOMAIN files[args.model_dir \o "/model.pth"].state_dict) = 6

\* C9 amended: the saved file holds exactly 8 tensors, the weight and the bias
\* of conv1, conv2, fc1 and fc2, under the keys module.<layer>.weight and
\* module.<layer>.bias, with the shapes of the architecture for width 5.
C9_EightTensors ==
    EndToEndRun =>
        LET sd == files[args.model_dir \o "/model.pth"].state_dict
        IN /\ Cardinality(DOMAIN sd) = 8
           /\ ArchitectureShapes(sd, 5)

C9_Witness ==
    /\ EndToEndRun
    /\ DOMAIN files = {"env:SM_MODEL_DIR/model.pth"}

JobStatus == IF job = None THEN "none" ELSE job.status

\* C10: fit returns (or raises) only when the job has ended; the job moves
\* submitted -> running -> succeeded or failed and stays there; the %store
\* lines run only after the job has ended.
C10_FitBlocksUntilTerminal ==
    /\ [](nb \in {"store_base_prefix", "store_data_s3_uri", "end"} \/ stored # {}
             => JobStatus \in Terminal)
    /\ [][(nb = "fit_wait" /\ nb' # "fit_wait") => JobStatus \in Terminal]_vars
    /\ [][JobStatus' # JobStatus =>
             <<JobStatus, JobStatus'>> \in {<<"none", "submitted">>,
                                            <<"submitted", "running">>,
                                            <<"running", "succeeded">>,
                                            <<"running", "failed">>}]_vars

\* both variables were stored after the job succeeded
C10_Witness ==
    /\ nb = "end" /\ stored = {"base_prefix", "data_s3_uri"}
    /\ JobStatus = "succeeded"

ModelObjects == {k \in DOMAIN s3 : s3[k].kind = "model"}

\* C11: once the job exists the upload has completed (its objects are in
\* storage and data_s3_uri holds the location upload_data returned) and the
\* job's "training" channel is exactly that location; the model file is in the
\* model directory only when train_model has returned and save_model has run,
\* and the packaged model is at the output location only after the script has
\* finished and the job has succeeded.
C11_UploadThenJobThenArtifact ==
    /\ job # None =>
          /\ data_s3_uri = "s3://" \o default_bucket \o "/mnist_training_job_examples/data"
          /\ data_s3_uri \in DOMAIN s3
          /\ s3[data_s3_uri].kind = "mnist_data"
          /\ job.inputs = [training |-> data_s3_uri]
    /\ files # <<>> => (pc = "done" /\ epoch = args.epochs)
    /\ ModelObjects # {} =>
          /\ pc = "done" /\ JobStatus = "succeeded"
          /\ ModelObjects = {job.descriptor.output_path \o "/" \o job.name
                             \o "/output/model.tar.gz"}

\* the notebook has run to its end: the job read the uploaded data and the
\* packaged model is at the output location
C11_Witness ==
    /\ nb = "end"
    /\ job.inputs.training = "s3://sagemaker-eu-west-1-1/mnist_training_job_examples/data"
    /\ ModelObjects = {"s3://sagemaker-eu-west-1-1/mnist_training_job_examples/models"
                       \o "/my-first-training-job/output/model.tar.gz"}

\* ceil(T / 64) for the train partition of T examples
BatchesPerEpoch ==
    IF mnist.train % TrainBatchSize = 0 THEN mnist.train \div TrainBatchSize
    ELSE mnist.train \div TrainBatchSize + 1
TrainingPcs == BatchSteps \cup {"next_batch"}
EvaluationPcs == {"eval_batch", "eval_test"}
Min(a, b) == IF a < b THEN a ELSE b

\* the order of the steps of one batch: a batch begins with zero_grad, and each
\* step is followed by the next one (or by the end of the run on an error)
BatchStepOrder ==
    pc' # pc =>
      /\ pc' = "zero_grad" => pc = "next_batch"
      /\ pc = "zero_grad" => pc' = "forward"
      /\ pc = "forward" => pc' \in {"loss", "fatal"}
      /\ pc = "loss" => pc' = "backward"
      /\ pc = "backward" => pc' \in {"step", "fatal"}
      /\ pc = "step" => pc' = "progress"
      /\ pc' = "step" => pc = "backward"
      /\ pc = "progress" => pc' = "next_batch"

ProgressRecords == SelectSeq(log, LAMBDA r : r.kind = "progress")
Abs(x) == IF x < 0 THEN 0 - x ELSE x
\* the number of examples of the k-th batch of an epoch
BatchSizeOf(k) == Min(TrainBatchSize * k, mnist.train) - TrainBatchSize * (k - 1)
\* the decimal shown is the value r rounded to that many digits
ShownAs(shown, r, digits) ==
    /\ shown.nan = r.nan
    /\ ~r.nan => /\ shown.den = 10^digits
                 /\ 2 * Abs(shown.num * r.den - r.num * 10^digits) <= r.den
\* the batches of the current epoch whose logging decision has been taken
BatchesDecided == IF pc \in BatchSteps THEN batch_idx - 1 ELSE batch_idx
\* the epoch and the batch index of the i-th progress record of a run
RecordEpoch(i) == (i - 1) \div (BatchesPerEpoch \div log_interval) + 1
RecordBatch(i) ==
    (((i - 1) % (BatchesPerEpoch \div log_interval)) + 1) * log_interval
\* a progress record is emitted exactly for the batches whose 1-based index is
\* a multiple of 100; it holds the epoch, the sampler length, the percentage
\* 100 * index / number of batches shown with no decimals, and the loss of
\* that batch shown with six decimals
EmittedForMultiples ==
    /\ [][/\ pc = "progress" /\ pc' # pc =>
               /\ batch_idx % log_interval # 0 => log' = log
               /\ batch_idx % log_interval = 0 =>
                    /\ Len(log') = Len(log) + 1
                    /\ SubSeq(log', 1, Len(log)) = log
                    /\ log'[Len(log')].kind = "progress"
                    /\ ShownAs(log'[Len(log')].loss, loss, 6)
          /\ pc # "progress" => ProgressRecords' = ProgressRecords]_vars
    /\ [](pc \in {"backward", "step"} =>
            (IsNaN(loss) \/ loss = BatchLoss(model.theta, batch)))
    /\ [](pc \in TrainingPcs =>
            Len(ProgressRecords) = (epoch - 1) * (BatchesPerEpoch \div log_interval)
                                   + BatchesDecided \div log_interval)
    /\ [](\A i \in 1..Len(ProgressRecords) :
            /\ ProgressRecords[i].epoch = RecordEpoch(i)
            /\ ProgressRecords[i].total = mnist.train
            /\ ShownAs(ProgressRecords[i].pct,
                       Rat(100 * RecordBatch(i), BatchesPerEpoch), 0))

\* C14 as stated: a progress record is emitted exactly for the batches whose
\* 1-based index is a multiple of 100, and the record logs the batch index,
\* the loss of that batch and the percentage 100 * index / number of batches.
C14_LogsBatchIndex ==
    /\ EmittedForMultiples
    /\ [](\A i \in 1..Len(ProgressRecords) :
            ProgressRecords[i].samples = RecordBatch(i))

\* C14, amended: the records are emitted for exactly those batches, and the
\* position a record logs is not the batch index but the batch index times
\* the number of examples of that batch.
C14_LogsIndexTimesBatchSize ==
    /\ EmittedForMultiples
    /\ [](\A i \in 1..Len(ProgressRecords) :
            ProgressRecords[i].samples = RecordBatch(i) * BatchSizeOf(RecordBatch(i)))

\* an epoch of 201 batches has been trained: records for batch 100 (6400,
\* 49.75 shown as 50) and batch 200 (12800, 99.50 shown as 100), none for 201
C14_Witness ==
    /\ pc = "done" /\ mnist.train = 12801
    /\ Len(ProgressRecords) = 2
    /\ ProgressRecords[1].samples = 6400 /\ ProgressRecords[1].pct = Rat(50, 1)
    /\ ProgressRecords[2].samples = 12800 /\ ProgressRecords[2].pct = Rat(100, 1)

\* the parameters change only by an optimizer step taken in training mode
ParametersOwnedByStep ==
    (model # None /\ model' # None /\ model'.theta # model.theta) =>
        /\ pc = "step" /\ pc' = "progress"
        /\ model.training /\ model'.training
        /\ model'.theta.steps = model.theta.steps + 1
\* log_performance, from its call to its return, leaves the parameters as they are
EvaluationReadsOnly ==
    (pc = "eval_batch" \/ pc' = "eval_batch") => model'.theta = model.theta

\* C15: every step of a training batch, the optimizer step included, is taken
\* in training mode, in every epoch (training mode is set again when an epoch
\* starts, after the evaluation of the previous one); every evaluation forward
\* pass is taken in evaluation mode; the parameters change only through an
\* optimizer step, and log_performance on either partition leaves them unchanged.
C15_ModeAndOwnership ==
    /\ [](pc \in TrainingPcs => model.training)
    /\ [](pc = "eval_batch" => ~model.training)
    /\ [][ParametersOwnedByStep]_vars
    /\ [][EvaluationReadsOnly]_vars

\* the optimizer step of a batch of the second epoch, about to be taken in
\* training mode after the first epoch's two evaluations
C15_Witness ==
    /\ pc = "step" /\ epoch = 2 /\ model.training
    /\ Len(EvalRecords) = 2
    /\ model.theta.steps = BatchesPerEpoch

NoEpochs == args # None /\ args.epochs <= 0

\* C16: with an epoch count of 0 or less no epoch starts: no training batch is
\* processed, no optimizer step is taken and no progress or evaluation record
\* is emitted; the loop itself raises nothing, train_model returns the model
\* as it was initialised, and save_model writes that model to model.pth.
C16_NoEpochsStillSaves ==
    /\ [](NoEpochs =>
            /\ pc \notin TrainingPcs \cup EvaluationPcs
            /\ epoch = 0 /\ batch_idx = 0 /\ batch = None /\ grad = None
            /\ model # None => model.theta = Theta(0, FALSE)
            /\ EvalRecords = <<>> /\ ProgressRecords = <<>>
            /\ pc = "done" =>
                 /\ error = "none" /\ saves = 1
                 /\ DOMAIN files = {args.model_dir \o "/model.pth"}
                 /\ files[args.model_dir \o "/model.pth"] =
                      [state_dict |-> model.state_dict, theta |-> Theta(0, FALSE)])
    /\ [][NoEpochs /\ pc = "epoch" /\ pc' # pc => pc' = "save" /\ error' = "none"]_vars

\* a run with --epochs -1 has ended with the initial model saved
C16_Witness ==
    /\ pc = "done" /\ args.epochs = 0 - 1
    /\ saves = 1 /\ model.theta = Theta(0, FALSE)
    /\ files # <<>>

\* C17: the selector reaches train_model as it was given; constructing the
\* optimizer raises nothing whatever the selector is; the optimizer is SGD with
\* learning rate 0.01 and momentum 0.5 for the exact string "sgd" and Adam with
\* learning rate 0.01 for every other string, "SGD" and names of no supported
\* optimizer included.
C17_SelectorNotValidated ==
    /\ [](args # None /\ argv.optimizer # <<>> => args.optimizer = argv.optimizer[1])
    /\ [][pc = "optimizer" /\ pc' # pc => pc' = "epoch" /\ error' = "none"]_vars
    /\ [](optimizer # None =>
            IF args.optimizer = "sgd"
            THEN optimizer = [type |-> "SGD", lr |-> Rat(1, 100), momentum |-> Rat(1, 2)]
            ELSE optimizer = [type |-> "Adam", lr |-> Rat(1, 100)])

\* a run given --optimizer SGD has trained with Adam and has saved its model
C17_Witness ==
    /\ pc = "done" /\ args.optimizer = "SGD"
    /\ optimizer.type = "Adam"
    /\ model.theta.steps >= 1 /\ saves = 1

====
